---- MODULE Spec2Model ----
(***************************************************************************)
(* The two timers of the Roseboard home page (client/src/pages/home.tsx):  *)
(* the Pomodoro timer kept in Home and the full-screen countdown kept in   *)
(* FullscreenTimerCard / useFullscreenTimer.                               *)
(*                                                                         *)
(* Time is the value of Date.now() in milliseconds.  The Pomodoro          *)
(* remaining time is in whole seconds, as in the source.  The full-screen  *)
(* `seconds` cell is a float number of seconds in the source; every value  *)
(* it takes is a multiple of 1 ms, so the model stores it in milliseconds. *)
(*                                                                         *)
(* One action is one browser event (a click, an interval callback, the     *)
(* 1 s clock of Home) together with the React render and the effects it    *)
(* triggers, in the order the effects are declared, up to the settled      *)
(* state.                                                                  *)
(***************************************************************************)
EXTENDS Integers, Sequences, FiniteSets, TLC

\* ------------------------------------------------------------ bounds
\* Number of times the wall clock may advance in one behaviour.
MaxAdvances == 2
\* The plus button is not pressed beyond this many minutes on the display.
MaxFsMinutes == 10
\* Longest string the generator is called with (besides MinSeedString).
MaxLen == 5
\* Number of calls of the generator, and of requests, in one behaviour.
MaxCalls == 2
\* Number of rejected store operations in one behaviour.
MaxFailures == 1
\* Number of tasks created in one behaviour.
MaxTasks == 2
\* Number of snapshots on their way to the listener at one time.
MaxSnapshots == 2
\* Number of days the end-of-day message is followed over.
MaxDays == 3
\* Number of requests for the message without an answer at one time.
MaxFetches == 2
\* Number of focus-time writes under way at one time.
MaxFocusCalls == 2
\* Focus minutes added in one behaviour, beyond which no more are added.
MaxFocusSum == 50

\* Amounts (ms) by which the wall clock advances between two events: less
\* than a second, half a minute and the focus duration.
ClockSteps == {400, 30000, 1500000}

\* ------------------------------------------------- program constants
FocusMin == 25
BreakMin == 5
InitialSeconds == 10 * 60

Null == 0 - 1
NoArg == "none"
\* resetPomodoro(nextMode?: "focus" | "break")
ResetArgs == {"focus", "break", NoArg}

Max(a, b) == IF a >= b THEN a ELSE b

\* ------------------------------------------------------ pure helpers
\* (pomoMode === "focus" ? 25 : 5) * 60
FullDuration(mode) == (IF mode = "focus" THEN FocusMin ELSE BreakMin) * 60

\* currentMode === "focus" ? "break" : "focus"
NextMode(mode) == IF mode = "focus" THEN "break" ELSE "focus"

\* Math.floor((Date.now() - pomoSessionStartRef.current) / 1000)
Elapsed(t, start) == (t - start) \div 1000

\* Math.max(0, totalDuration - elapsed)
RemainingTime(total, elapsed) == Max(0, total - elapsed)

\* The remaining time of the session that has just run out.
NextSessionDurationSpent(mode) == Max(0, 0 - FullDuration(mode))

\* (pomoMode === "focus" ? 5 : 25) * 60
NextSessionDuration(mode) == (IF mode = "focus" THEN BreakMin ELSE FocusMin) * 60

\* pomoOnFocusTimeRef.current(25) inside the setPomoMode updater
CompletionCallsAlways(mode, calls) == Append(calls, [src |-> "pomo", minutes |-> FocusMin])
CompletionCalls(mode, calls) ==
    IF mode = "focus"
    THEN Append(calls, [src |-> "pomo", minutes |-> FocusMin])
    ELSE calls

\* resetPomodoro's parameter: nextMode = "focus" by default
ResetTargetKeep(arg, mode) == IF arg = NoArg THEN mode ELSE arg
ResetTarget(arg, mode) == IF arg = NoArg THEN "focus" ELSE arg

\* Math.round(sessionDurationMs / (1000 * 60)), sessionDurationMs >= 0
SessionMinutes(d) == (d + 30000) \div 60000

\* (s) => Math.max(0, s - 60)   and   (s) => s + 60      (in ms)
MinusMinuteUnclamped(s) == s - 60000
MinusMinute(s) == Max(0, s - 60000)
PlusMinute(s) == s + 60000

VARIABLES
    now,                      \* Date.now()
    advances,                 \* how often the clock has advanced
    activeTab,                \* Home's tab: "today", "focus" or "timer"
    \* ---- Pomodoro (Home)
    pomoMode, pomoRunning, pomoRemaining,
    pomoIntervalRef,          \* TRUE when a setInterval callback is registered
    pomoSessionStartRef, pomoSessionDurationRef,
    cbRemaining,              \* pomoRemaining as captured by calculatePomoRemaining
    \* ---- full-screen timer (useFullscreenTimer)
    seconds, running,
    lastTickRef, sessionStartTimeRef,
    fsInterval,               \* TRUE when the tick interval is registered
    \* ---- setInterval timers created by the tick effects and not cleared
    pomoTimers, fsTimers,
    \* ---- calls of the focus-time callback (addFocusTime), in order
    focusCalls,
    \* ---- history variables, read by the properties only
    pomoT0, pomoD,            \* start and snapshot of the running Pomodoro interval
    fsT0, fsD,                \* start and snapshot of the running full-screen interval;
                              \* fsD is Null for an interval started at 0 seconds,
                              \* which has nothing to count down
    pomoDueMs, fsDueMs,       \* configured time minus wall-clock time spent running;
                              \* set to the displayed value when the timer stops
    fsAdjusted,               \* TRUE when -1m / +1m was pressed in the running interval
    fsZeroBy,                 \* what brought a running full-screen timer to 0:
                              \* "tick", "minus" or "none"
    \* ---- the full-screen overlay (useFullscreenTimer)
    fsOpen                    \* open

\* ---- the daily-message generator and its route (server/routes.ts)
VARIABLES
    dateString,               \* the argument of generateDailyMessage
    seed,                     \* the seed the last call ended with
    message,                  \* the result of the last call
    genCalls,                 \* the results of the calls made so far, in order
    responses                 \* the bodies sent by GET /api/eod-message, in order

genVars == <<dateString, seed, message, genCalls, responses>>

\* ---- Home's values kept in the document store (Firestore user document)
VARIABLES
    memory,                   \* the in-memory value of each field (useState cells)
    logged,                   \* operations whose failure was logged, in order
    unhandled                 \* operations whose failure was not handled, in order

storeVars == <<memory, logged, unhandled>>

\* ---- Home's task list and its subscription
VARIABLES
    signedIn,                 \* session.signedIn and user present
    tasks,                    \* the local list (useState)
    collection,               \* the documents of users/{uid}/tasks, createdAt descending
    created,                  \* number of tasks created so far
    subscribed,               \* TRUE while the onSnapshot listener is attached
    snapshots                 \* snapshots on their way to the listener, oldest first

taskVars == <<signedIn, tasks, collection, created, subscribed, snapshots>>

\* ---- Home's end-of-day message
VARIABLES
    night,                    \* currentTime.getHours() >= 21
    todayKey,                 \* new Date().toDateString(), as a day number
    cache,                    \* localStorage: rose_eod_last_date, rose_eod_message
    eodMessage,               \* the message displayed, Null when none
    fetches,                  \* requests without an answer yet: the todayKey each captured
    fetchedOn                 \* history: the last day on which a request of that day succeeded

eodVars == <<night, todayKey, cache, eodMessage, fetches, fetchedOn>>

\* ---- Home's statistics: the login streak
VARIABLES
    streak,                   \* the displayed streak (useState)
    stored,                   \* the user document: exists, streak, lastLoginDate
    loadPc, loadVal,          \* loadStatistics: where it is, what its getDoc returned
    updPc, updVal,            \* updateLoginStreak: where it is, what its getDoc
                              \* returned, then what it writes
    \* ---- Home's statistics: the focus time
    focusTime,                \* the focus minutes in memory (useState)
    focusWrites,              \* the values of the setDoc calls still under way
    focusSum                  \* history: the sum of the positive minutes added

focusVars == <<focusTime, focusWrites, focusSum>>
statVars == <<streak, stored, loadPc, loadVal, updPc, updVal, focusVars>>

otherVars == <<genVars, storeVars, taskVars, eodVars, statVars>>

pomoVars == <<pomoMode, pomoRunning, pomoRemaining, pomoIntervalRef,
              pomoSessionStartRef, pomoSessionDurationRef, cbRemaining>>
fsVars == <<seconds, running, lastTickRef, sessionStartTimeRef, fsInterval>>
histVars == <<pomoT0, pomoD, fsT0, fsD, pomoDueMs, fsDueMs, fsAdjusted, fsZeroBy>>
timerVars == <<now, advances, activeTab, pomoVars, fsVars, pomoTimers, fsTimers,
              focusCalls, histVars, fsOpen>>
\* What the timers' own operations leave alone.
restVars == <<otherVars, fsOpen>>
vars == <<timerVars, otherVars>>

\* ------------------------------------------------------------ effects
\* useFullscreenTimer's first effect, deps [running, onFocusTime]
SessionEffect(isRunning, sst, ltr, calls, t) ==
    IF isRunning
    THEN [sst |-> t, ltr |-> t, calls |-> calls]
    ELSE IF sst # Null
         THEN [sst |-> Null, ltr |-> ltr,
               calls |-> IF SessionMinutes(t - sst) > 0
                         THEN Append(calls, [src |-> "fs", minutes |-> SessionMinutes(t - sst)])
                         ELSE calls]
         ELSE [sst |-> sst, ltr |-> ltr, calls |-> calls]

\* A render of Home creates a new addFocusTime, which FullscreenTimerCard
\* receives as onFocusTime: the session effect of the card runs again.
HomeRender(rendered, calls) ==
    IF rendered
    THEN SessionEffect(running, sessionStartTimeRef, lastTickRef, calls, now)
    ELSE [sst |-> sessionStartTimeRef, ltr |-> lastTickRef, calls |-> calls]

\* Home's run effect, run again: the cleanup clears the interval held in
\* pomoIntervalRef, the body sets a new one when running.  live is the
\* number of timers not cleared, ref tells whether the ref holds one.
RunEffectIntervalsNoCleanup(live, ref, isRunning) == IF isRunning THEN live + 1 ELSE live
RunEffectIntervals(live, ref, isRunning) ==
    LET cleaned == IF ref THEN live - 1 ELSE live IN
    IF isRunning THEN cleaned + 1 ELSE cleaned

\* useFullscreenTimer's tick effect, run again or torn down (isRunning
\* FALSE): the cleanup clears the interval of the run before.
TickEffectIntervals(live, wasRunning, isRunning) ==
    LET cleaned == IF wasRunning THEN live - 1 ELSE live IN
    IF isRunning THEN cleaned + 1 ELSE cleaned

TimersInit ==
    /\ now = 1
    /\ advances = 0
    /\ activeTab = "today"
    /\ pomoMode = "focus"
    /\ pomoRunning = FALSE
    /\ pomoRemaining = FocusMin * 60
    /\ pomoIntervalRef = FALSE
    /\ pomoSessionStartRef = Null
    /\ pomoSessionDurationRef = 0
    /\ cbRemaining = FocusMin * 60
    /\ seconds = InitialSeconds * 1000
    /\ running = FALSE
    /\ lastTickRef = Null
    /\ sessionStartTimeRef = Null
    /\ fsInterval = FALSE
    /\ pomoTimers = 0
    /\ fsTimers = 0
    /\ focusCalls = <<>>
    /\ pomoT0 = Null
    /\ pomoD = Null
    /\ fsT0 = Null
    /\ fsD = Null
    /\ pomoDueMs = FocusMin * 60 * 1000
    /\ fsDueMs = InitialSeconds * 1000
    /\ fsAdjusted = FALSE
    /\ fsZeroBy = "none"
    /\ fsOpen = FALSE

\* No call of the generator and no request yet.
GenIdle ==
    /\ dateString = <<>>
    /\ seed = [h |-> 0, l |-> 0]
    /\ message = ""
    /\ genCalls = <<>>
    /\ responses = <<>>

\* Home's other state before anything has happened: the fields at their
\* initial values, no user session yet, daytime with an empty cache.
Fields == {"themeMode", "header", "focusTime", "globalNotes"}
Values == {"initial", "other"}
StoreIdle ==
    /\ memory = [f \in Fields |-> "initial"]
    /\ logged = <<>>
    /\ unhandled = <<>>

TasksIdle ==
    /\ signedIn = FALSE
    /\ tasks = <<>>
    /\ collection = <<>>
    /\ created = 0
    /\ subscribed = FALSE
    /\ snapshots = <<>>

\* localStorage.getItem of an item never set, and the message state
\* before any is shown: JavaScript null.
Absent == "null"
NoDate == 0
EodIdle ==
    /\ night = FALSE
    /\ todayKey = 1
    /\ cache = [lastDate |-> NoDate, message |-> Absent]
    /\ eodMessage = Absent
    /\ fetches = <<>>
    /\ fetchedOn = NoDate

\* No user document yet, nothing displayed, nothing under way.
NoDoc == [exists |-> FALSE, streak |-> 0, last |-> NoDate, focus |-> 0]
StatsIdle ==
    /\ streak = 0
    /\ stored = NoDoc
    /\ loadPc = "idle"
    /\ loadVal = NoDoc
    /\ updPc = "idle"
    /\ updVal = NoDoc
    /\ focusTime = 0
    /\ focusWrites = <<>>
    /\ focusSum = 0

Init == TimersInit /\ GenIdle /\ StoreIdle /\ TasksIdle /\ EodIdle /\ StatsIdle

\* ------------------------------------------------------------ the clock
Advance(d) ==
    /\ advances < MaxAdvances
    /\ now' = now + d
    /\ advances' = advances + 1
    /\ pomoDueMs' = IF pomoRunning THEN pomoDueMs - d ELSE pomoDueMs
    /\ fsDueMs' = IF running /\ fsD # Null THEN fsDueMs - d ELSE fsDueMs
    /\ UNCHANGED <<activeTab, pomoVars, fsVars, pomoTimers, fsTimers, focusCalls,
                   pomoT0, pomoD, fsT0, fsD,
                   fsAdjusted, fsZeroBy,
                   restVars>>

\* Home's 1 s clock: setCurrentTime(new Date()) renders Home.
HomeRerender ==
    LET r == HomeRender(TRUE, focusCalls) IN
    /\ sessionStartTimeRef' = r.sst
    /\ lastTickRef' = r.ltr
    /\ focusCalls' = r.calls
    /\ UNCHANGED <<now, advances, activeTab, pomoVars, seconds, running, fsInterval,
                   pomoTimers, fsTimers, histVars,
                   restVars>>

\* The tab buttons: setActiveTab(tab).  PomodoroCard is rendered in the
\* "focus" panel and FullscreenTimerCard in the "timer" panel; only the
\* active panel is mounted.  Leaving "timer" unmounts the card: the tick
\* effect's cleanup clears the interval and the card's state cells and refs
\* are dropped (the next mount starts from useFullscreenTimer(10 * 60)).
SwitchTab(tab) ==
    /\ tab # activeTab
    /\ activeTab' = tab
    /\ IF activeTab = "timer"
       THEN /\ seconds' = InitialSeconds * 1000
            /\ running' = FALSE
            /\ lastTickRef' = Null
            /\ sessionStartTimeRef' = Null
            /\ fsInterval' = FALSE
            /\ fsTimers' = TickEffectIntervals(fsTimers, running, FALSE)
            /\ fsT0' = Null
            /\ fsD' = Null
            /\ fsDueMs' = InitialSeconds * 1000
            /\ fsAdjusted' = FALSE
            /\ fsZeroBy' = "none"
            /\ fsOpen' = FALSE
       ELSE UNCHANGED <<fsVars, fsTimers, fsT0, fsD, fsDueMs, fsAdjusted, fsZeroBy, fsOpen>>
    /\ UNCHANGED <<now, advances, pomoVars, pomoTimers, focusCalls, pomoT0, pomoD,
                   pomoDueMs, otherVars>>

\* The user signs out and in again: App renders LandingPage instead of
\* Home, then a new Home.  Unmounting runs the cleanups of the tick effects;
\* the new Home starts from the initial values.
HomeRemount ==
    /\ activeTab' = "today"
    /\ pomoMode' = "focus"
    /\ pomoRunning' = FALSE
    /\ pomoRemaining' = FocusMin * 60
    /\ pomoIntervalRef' = FALSE
    /\ pomoSessionStartRef' = Null
    /\ pomoSessionDurationRef' = 0
    /\ cbRemaining' = FocusMin * 60
    /\ seconds' = InitialSeconds * 1000
    /\ running' = FALSE
    /\ lastTickRef' = Null
    /\ sessionStartTimeRef' = Null
    /\ fsInterval' = FALSE
    /\ pomoTimers' = RunEffectIntervals(pomoTimers, pomoIntervalRef, FALSE)
    /\ fsTimers' = TickEffectIntervals(fsTimers, running, FALSE)
    /\ pomoT0' = Null
    /\ pomoD' = Null
    /\ fsT0' = Null
    /\ fsD' = Null
    /\ pomoDueMs' = FocusMin * 60 * 1000
    /\ fsDueMs' = InitialSeconds * 1000
    /\ fsAdjusted' = FALSE
    /\ fsZeroBy' = "none"
    /\ fsOpen' = FALSE
    /\ UNCHANGED <<now, advances, focusCalls, otherVars>>

\* ------------------------------------------------------------ Pomodoro
\* The mode effect has deps [pomoMode] only: a render in which only
\* pomoRunning changed leaves pomoRemaining as it is.
RemainingAfterRunningChangeReset(mode, remaining) == FullDuration(mode)
RemainingAfterRunningChange(mode, remaining) == remaining

\* Run effect, running branch: if (!pomoSessionStartRef.current) { arm }
ArmedDuration(start, duration, remaining, mode) ==
    IF start = Null THEN remaining ELSE duration

\* PomodoroCard's Start / Pause button: onSetRunning(!running)
PomoToggle ==
    LET r == HomeRender(TRUE, focusCalls) IN
    /\ activeTab = "focus"
    /\ pomoRunning' = ~pomoRunning
    /\ pomoMode' = pomoMode
    /\ pomoTimers' = RunEffectIntervals(pomoTimers, pomoIntervalRef, ~pomoRunning)
    /\ pomoRemaining' = RemainingAfterRunningChange(pomoMode, pomoRemaining)
    /\ cbRemaining' = pomoRemaining
    /\ IF ~pomoRunning
       THEN /\ pomoSessionStartRef' =
                   IF pomoSessionStartRef = Null THEN now ELSE pomoSessionStartRef
            /\ pomoSessionDurationRef' =
                   ArmedDuration(pomoSessionStartRef, pomoSessionDurationRef,
                                 pomoRemaining, pomoMode)
            /\ pomoIntervalRef' = TRUE
            /\ pomoT0' = now
            /\ pomoD' = pomoRemaining
            /\ pomoDueMs' = pomoDueMs
       ELSE /\ pomoSessionStartRef' = Null
            /\ pomoSessionDurationRef' = pomoSessionDurationRef
            /\ pomoIntervalRef' = FALSE
            /\ pomoT0' = Null
            /\ pomoD' = Null
            /\ pomoDueMs' = pomoRemaining' * 1000
    /\ sessionStartTimeRef' = r.sst
    /\ lastTickRef' = r.ltr
    /\ focusCalls' = r.calls
    /\ UNCHANGED <<now, advances, activeTab, seconds, running, fsInterval, fsTimers,
                   fsT0, fsD,
                   fsDueMs, fsAdjusted, fsZeroBy,
                   restVars>>

\* calculatePomoRemaining at the current time: the captured pomoRemaining
\* when the session is not armed, else the remaining time; at 0 the
\* session is completed and the next session's duration is returned.
PomoArmed == pomoRunning /\ pomoSessionStartRef # Null
PomoCompletes ==
    /\ PomoArmed
    /\ RemainingTime(pomoSessionDurationRef, Elapsed(now, pomoSessionStartRef)) = 0
CalculatePomoRemaining ==
    IF ~PomoArmed THEN cbRemaining
    ELSE IF PomoCompletes THEN NextSessionDuration(pomoMode)
    ELSE RemainingTime(pomoSessionDurationRef, Elapsed(now, pomoSessionStartRef))

\* The 100 ms interval callback: setPomoRemaining(calculatePomoRemaining())
PomoTick ==
    /\ pomoIntervalRef
    /\ IF PomoCompletes
       THEN \* session completed: the mode flips, then the run effect and the
            \* mode effect run, in this order
            LET r == HomeRender(TRUE, CompletionCalls(pomoMode, focusCalls)) IN
            /\ pomoMode' = NextMode(pomoMode)
            /\ pomoRunning' = pomoRunning
            /\ pomoIntervalRef' = TRUE
            /\ pomoTimers' = RunEffectIntervals(pomoTimers, pomoIntervalRef, pomoRunning)
            /\ pomoSessionDurationRef' = CalculatePomoRemaining
            /\ cbRemaining' = CalculatePomoRemaining
            /\ pomoRemaining' = FullDuration(NextMode(pomoMode))
            /\ pomoSessionStartRef' = Null
            /\ pomoT0' = now
            /\ pomoD' = FullDuration(NextMode(pomoMode))
            /\ pomoDueMs' = FullDuration(NextMode(pomoMode)) * 1000
            /\ sessionStartTimeRef' = r.sst
            /\ lastTickRef' = r.ltr
            /\ focusCalls' = r.calls
       ELSE LET r == HomeRender(CalculatePomoRemaining # pomoRemaining, focusCalls) IN
            /\ pomoRemaining' = CalculatePomoRemaining
            /\ sessionStartTimeRef' = r.sst
            /\ lastTickRef' = r.ltr
            /\ focusCalls' = r.calls
            /\ UNCHANGED <<pomoMode, pomoRunning, pomoIntervalRef, pomoTimers,
                           pomoSessionStartRef,
                           pomoSessionDurationRef, cbRemaining, pomoT0, pomoD, pomoDueMs>>
    /\ UNCHANGED <<now, advances, activeTab, seconds, running, fsInterval, fsTimers,
                   fsT0, fsD,
                   fsDueMs, fsAdjusted, fsZeroBy,
                   restVars>>

\* resetPomodoro(nextMode = "focus"); arg is the argument, NoArg when omitted
PomoReset(arg) ==
    LET target == ResetTarget(arg, pomoMode)
        depsChanged == pomoRunning \/ pomoMode # target
        rendered == depsChanged \/ pomoRemaining # FullDuration(target)
        r == HomeRender(rendered, focusCalls)
    IN
    /\ activeTab = "focus"
    /\ pomoRunning' = FALSE
    /\ pomoMode' = target
    /\ pomoRemaining' = FullDuration(target)
    /\ pomoSessionStartRef' = Null
    /\ pomoIntervalRef' = FALSE
    /\ pomoTimers' = IF depsChanged
                     THEN RunEffectIntervals(pomoTimers, pomoIntervalRef, FALSE)
                     ELSE pomoTimers
    /\ cbRemaining' = IF depsChanged THEN FullDuration(target) ELSE cbRemaining
    /\ pomoSessionDurationRef' = pomoSessionDurationRef
    /\ pomoT0' = Null
    /\ pomoD' = Null
    /\ pomoDueMs' = FullDuration(target) * 1000
    /\ sessionStartTimeRef' = r.sst
    /\ lastTickRef' = r.ltr
    /\ focusCalls' = r.calls
    /\ UNCHANGED <<now, advances, activeTab, seconds, running, fsInterval, fsTimers,
                   fsT0, fsD,
                   fsDueMs, fsAdjusted, fsZeroBy,
                   restVars>>

\* ---------------------------------------------------- full-screen timer
\* The effects that follow setRunning(false): the session effect reports the
\* run, the tick effect clears the interval and lastTickRef.
FsStopped(secondsNew) ==
    LET r == SessionEffect(FALSE, sessionStartTimeRef, lastTickRef, focusCalls, now) IN
    /\ running' = FALSE
    /\ sessionStartTimeRef' = r.sst
    /\ lastTickRef' = Null
    /\ fsInterval' = FALSE
    /\ fsTimers' = TickEffectIntervals(fsTimers, running, FALSE)
    /\ focusCalls' = r.calls
    /\ fsT0' = Null
    /\ fsD' = Null
    /\ fsDueMs' = secondsNew
    /\ fsAdjusted' = FALSE

\* The seconds effect: if (seconds === 0) setRunning(false); it runs when
\* seconds has changed.
StopAtZeroNever(secondsOld, secondsNew) == FALSE
StopAtZero(secondsOld, secondsNew) == secondsNew = 0 /\ secondsNew # secondsOld

\* Start / Pause button of the card and of the overlay: setRunning(!running)
FsToggle ==
    /\ activeTab = "timer"
    /\ seconds' = seconds
    /\ IF ~running
       THEN LET r == SessionEffect(TRUE, sessionStartTimeRef, lastTickRef, focusCalls, now) IN
            /\ running' = TRUE
            /\ sessionStartTimeRef' = r.sst
            /\ lastTickRef' = r.ltr
            /\ focusCalls' = r.calls
            /\ fsInterval' = TRUE
            /\ fsTimers' = TickEffectIntervals(fsTimers, running, TRUE)
            /\ fsT0' = now
            /\ fsD' = IF seconds > 0 THEN seconds ELSE Null
            /\ fsDueMs' = seconds
            /\ fsAdjusted' = FALSE
            /\ fsZeroBy' = "none"
       ELSE /\ FsStopped(seconds)
            /\ fsZeroBy' = "none"
    /\ UNCHANGED <<now, advances, activeTab, pomoVars, pomoTimers, pomoT0, pomoD,
                   pomoDueMs, restVars>>

\* const next = prev - delta; return next <= 0 ? 0 : next   (in ms)
FsNextFromStart(prev, delta) == Max(0, InitialSeconds * 1000 - (now - fsT0))
FsNext(prev, delta) == IF prev - delta <= 0 THEN 0 ELSE prev - delta

\* What the tick callback leaves in seconds at the current time:
\* delta = (now - (lastTickRef ?? now)) / 1000; if (delta <= 0) return
FsTickSeconds ==
    LET last == IF lastTickRef = Null THEN now ELSE lastTickRef
        delta == now - last
    IN  IF delta <= 0 THEN seconds ELSE FsNext(seconds, delta)

\* The 100 ms interval callback of the tick effect
FsTick ==
    /\ fsInterval
    /\ seconds' = FsTickSeconds
    /\ IF running /\ StopAtZero(seconds, FsTickSeconds)
       THEN /\ FsStopped(FsTickSeconds)
            /\ fsZeroBy' = "tick"
       ELSE /\ lastTickRef' = now
            /\ UNCHANGED <<running, sessionStartTimeRef, fsInterval, fsTimers, focusCalls,
                           fsT0, fsD, fsDueMs, fsAdjusted, fsZeroBy>>
    /\ UNCHANGED <<now, advances, activeTab, pomoVars, pomoTimers, pomoT0, pomoD,
                   pomoDueMs, restVars>>

\* The -1m / +1m buttons: setSeconds(f)
FsAdjust(f) ==
    /\ activeTab = "timer"
    /\ seconds' = f
    /\ IF running /\ StopAtZero(seconds, f)
       THEN /\ FsStopped(f)
            /\ fsZeroBy' = "minus"
       ELSE /\ fsD' = IF running /\ fsD # Null THEN fsD + (f - seconds) ELSE fsD
            /\ fsDueMs' = IF running /\ fsD # Null THEN fsDueMs + (f - seconds) ELSE f
            /\ fsAdjusted' = (running \/ fsAdjusted)
            /\ fsZeroBy' = IF f > 0 THEN "none" ELSE fsZeroBy
            /\ UNCHANGED <<running, sessionStartTimeRef, lastTickRef, fsInterval, fsTimers,
                           focusCalls, fsT0>>
    /\ UNCHANGED <<now, advances, activeTab, pomoVars, pomoTimers, pomoT0, pomoD,
                   pomoDueMs, restVars>>

FsMinus == FsAdjust(MinusMinute(seconds))

FsPlus ==
    /\ PlusMinute(seconds) <= MaxFsMinutes * 60000
    /\ FsAdjust(PlusMinute(seconds))

Next ==
    \/ \E d \in ClockSteps : Advance(d)
    \/ HomeRerender
    \/ \E tab \in {"today", "focus", "timer"} : SwitchTab(tab)
    \/ HomeRemount
    \/ PomoToggle
    \/ PomoTick
    \/ \E arg \in ResetArgs : PomoReset(arg)
    \/ FsToggle
    \/ FsTick
    \/ FsMinus
    \/ FsPlus

Spec == Init /\ [][Next]_vars

\* ------------------------------------------------ the full-screen overlay
\* enter() and exit() of useFullscreenTimer: the flag is set first, then the
\* browser is asked for (or to leave) full-screen display; ok = FALSE is a
\* request the browser rejects.  The rejections left unhandled after it:
FullscreenRejectionThrown(ok, op, errs) == IF ok THEN errs ELSE Append(errs, op)

FullscreenRejection(ok, op, errs) == errs

FsEnter(ok) ==
    /\ activeTab = "timer"
    /\ fsOpen' = TRUE
    /\ unhandled' = FullscreenRejection(ok, "enter", unhandled)
    /\ UNCHANGED <<now, advances, activeTab, pomoVars, fsVars, pomoTimers, fsTimers,
                   focusCalls, histVars>>
    /\ UNCHANGED <<genVars, memory, logged, taskVars, eodVars, statVars>>

\* The exit button is part of the overlay.
FsExit(ok) ==
    /\ activeTab = "timer"
    /\ fsOpen
    /\ fsOpen' = FALSE
    /\ unhandled' = FullscreenRejection(ok, "exit", unhandled)
    /\ UNCHANGED <<now, advances, activeTab, pomoVars, fsVars, pomoTimers, fsTimers,
                   focusCalls, histVars>>
    /\ UNCHANGED <<genVars, memory, logged, taskVars, eodVars, statVars>>

\* The full-screen timer card with its overlay.
OpenNext ==
    \/ \E d \in ClockSteps : Advance(d)
    \/ \E tab \in {"today", "focus", "timer"} : SwitchTab(tab)
    \/ FsToggle
    \/ FsTick
    \/ FsMinus
    \/ FsPlus
    \/ \E ok \in BOOLEAN : FsEnter(ok)
    \/ \E ok \in BOOLEAN : FsExit(ok)

OpenSpec == Init /\ [][OpenNext]_vars

\* ==================================================== the daily message
\* A JavaScript Number holding an integer n is the record [h, l] with
\* n = h * 65536 + l and l in 0 .. 65535 (h is negative for n < 0), so that
\* values beyond 32 bits keep their exact value, as in a double below 2^53.
W == 65536
Num(h0, l0) == [h |-> h0, l |-> l0]

\* ToInt32: the value modulo 2^32, in -2^31 .. 2^31 - 1
ToInt32(n) == Num(((n.h + 32768) % W) - 32768, n.l)

\* a + c and a - b on Numbers (exact), c a character code
AddCode(a, c) == Num(a.h + ((a.l + c) \div W), (a.l + c) % W)
Sub(a, b) == Num(a.h - b.h - (IF a.l < b.l THEN 1 ELSE 0), (a.l - b.l) % W)

\* seed << 5: ToInt32 of the operand, times 32, ToInt32 of the result
ShiftLeft5(n) ==
    LET v == ToInt32(n) IN ToInt32(Num(v.h * 32 + ((v.l * 32) \div W), (v.l * 32) % W))

\* seed & seed: "Convert to 32bit integer"
BitAndSelfNone(n) == n
BitAndSelf(n) == ToInt32(n)

\* One round of the loop: seed = ((seed << 5) - seed) + c; seed = seed & seed
SeedStep(sd, c) == BitAndSelf(AddCode(Sub(ShiftLeft5(sd), sd), c))

\* The loop over dateString.charCodeAt(i), from the seed sd.  Each round's
\* seed is computed (the test of next.l, always true) before the next round.
RECURSIVE SeedLoop(_, _)
SeedLoop(sd, str) ==
    IF str = <<>> THEN sd
    ELSE LET next == SeedStep(sd, Head(str)) IN
         IF next.l >= 0 THEN SeedLoop(next, Tail(str)) ELSE next

\* let seed = 0: every call starts from 0, whatever the last call left
InitialSeedCarried(last) == last
InitialSeed(last) == Num(0, 0)

\* Math.abs(seed)
Negated(n) == IF n.l = 0 THEN Num(0 - n.h, 0) ELSE Num(0 - n.h - 1, W - n.l)
AbsNone(n) == n
Abs(n) == IF n.h < 0 THEN Negated(n) ELSE n

\* n % m for a small positive m: the sign of the result is the sign of n
Rem(n, m) ==
    IF n.h < 0
    THEN 0 - ((((Negated(n).h % m) * (W % m)) + Negated(n).l) % m)
    ELSE (((n.h % m) * (W % m)) + n.l) % m

\* Strings with slots are sequences of pieces; a slot is a piece of its own.
templates == <<
    <<"You ", "{action}", " today. ", "{encouragement}">>,
    <<"{encouragement}", " You've ", "{verb}", " through another day.">>,
    <<"Rest now. ", "{future_action}">>,
    <<"{accomplishment}", ", and that's enough.">>,
    <<"Your ", "{quality}", " matters. Take care of yourself.">> >>
actions == <<"did enough", "showed up", "made it through", "gave your best",
             "tried your hardest">>
encouragements == <<"Well done", "Good work", "You've got this", "Keep going", "Be proud">>
verbs == <<"made it", "pushed through", "powered through", "persevered", "carried on">>
accomplishments == <<"You showed up today", "You tried your best", "You kept going",
                     "You made progress", "You did your part">>
qualities == <<"effort", "courage", "persistence", "strength", "resilience">>
futureActions == <<"Tomorrow is a fresh start.", "Tomorrow awaits your greatness.",
                   "Tomorrow will be better.", "Tomorrow needs you.",
                   "Tomorrow is a new opportunity.">>

\* array[idx]: undefined outside the array
Undefined == "undefined"
AtNoOffset(array, idx) == IF idx \in 1 .. Len(array) THEN array[idx] ELSE Undefined
At(array, idx) == IF idx \in 0 .. (Len(array) - 1) THEN array[idx + 1] ELSE Undefined

\* (abs + k) % pool.length
SlotIdxSame(abs, k, pool) == Rem(abs, Len(pool))
SlotIdx(abs, k, pool) == Rem(AddCode(abs, k), Len(pool))

\* A replace that leaves the message as it is.
ReplaceNone(msg, slot, value) == msg

\* String.prototype.replace with a string pattern: the first occurrence only
RECURSIVE Replace(_, _, _)
Replace(msg, slot, value) ==
    IF msg = <<>> THEN <<>>
    ELSE IF Head(msg) = slot THEN <<value>> \o Tail(msg)
    ELSE <<Head(msg)>> \o Replace(Tail(msg), slot, value)

RECURSIVE Join(_)
Join(msg) == IF msg = <<>> THEN "" ELSE Head(msg) \o Join(Tail(msg))

\* Lines 70-88: the message selected and filled for a seed.  A template
\* that is undefined makes .replace throw.
TypeError == "TypeError"
FilledPieces(template, abs) ==
    Replace(Replace(Replace(Replace(Replace(Replace(template,
        "{action}", At(actions, SlotIdx(abs, 1, actions))),
        "{encouragement}", At(encouragements, SlotIdx(abs, 2, encouragements))),
        "{verb}", At(verbs, SlotIdx(abs, 3, verbs))),
        "{accomplishment}", At(accomplishments, SlotIdx(abs, 4, accomplishments))),
        "{quality}", At(qualities, SlotIdx(abs, 5, qualities))),
        "{future_action}", At(futureActions, SlotIdx(abs, 6, futureActions)))
MessageFor(sd) ==
    LET abs == Abs(sd)
        template == At(templates, Rem(abs, Len(templates)))
    IN  IF template = Undefined THEN TypeError
        ELSE Join(FilledPieces(template, abs))

\* generateDailyMessage(str), last being the seed the call before ended with
GenerateSeed(str, last) == SeedLoop(InitialSeed(last), str)
GenerateDailyMessage(str, last) == MessageFor(GenerateSeed(str, last))

\* The strings the generator is called with: all strings of at most
\* MaxLen characters over Chars, "GydZG_", whose seed is -2^31, and
\* "Wed Nov 04 2026", a value of new Date().toDateString().
Chars == {48, 101, 65535}
MinSeedString == <<71, 121, 100, 90, 71, 95>>
SampleDate == <<87, 101, 100, 32, 78, 111, 118, 32, 48, 52, 32, 50, 48, 50, 54>>
Strings ==
    UNION {[1 .. n -> Chars] : n \in 0 .. MaxLen} \cup {MinSeedString, SampleDate}

GenInit ==
    /\ TimersInit
    /\ dateString \in Strings
    /\ seed = Num(0, 0)
    /\ message = ""
    /\ genCalls = <<>>
    /\ responses = <<>>
    /\ StoreIdle /\ TasksIdle /\ EodIdle /\ StatsIdle

\* A call generateDailyMessage(dateString)
GenCall ==
    /\ Len(genCalls) < MaxCalls
    /\ seed' = GenerateSeed(dateString, seed)
    /\ message' = GenerateDailyMessage(dateString, seed)
    /\ genCalls' = Append(genCalls, message')
    /\ UNCHANGED <<dateString, responses, timerVars, storeVars, taskVars, eodVars, statVars>>

\* const message = generateDailyMessage(date), as the handler calls it
HandlerMessageOfLast(date, last) == message
HandlerMessage(date, last) == GenerateDailyMessage(date, last)

\* GET /api/eod-message on a server whose date string is dateString
EodRequest ==
    /\ Len(responses) < MaxCalls
    /\ seed' = GenerateSeed(dateString, seed)
    /\ message' = HandlerMessage(dateString, seed)
    /\ responses' = Append(responses, [message |-> message', date |-> dateString])
    /\ UNCHANGED <<dateString, genCalls, timerVars, storeVars, taskVars, eodVars, statVars>>

GenNext == GenCall \/ EodRequest

GenSpec == GenInit /\ [][GenNext]_vars

\* ================================================== the document store
\* Home keeps the theme, the header, the statistics and the notes in the
\* user document, and the tasks in the collection users/{uid}/tasks.  Every
\* read and write is a promise that the store may reject; ok = FALSE is a
\* rejected one.

LoadOps == {"loadTheme", "loadHeader", "loadStatistics", "loadNotes"}
SaveOps == {"saveTheme", "saveHeader", "addFocusTime", "saveNotes"}
TaskOps == {"addTask", "toggleTask", "updateTask", "removeTask"}

\* The field an operation on the user document reads or writes.
FieldOf(op) ==
    CASE op \in {"loadTheme", "saveTheme"} -> "themeMode"
      [] op \in {"loadHeader", "saveHeader"} -> "header"
      [] op \in {"loadStatistics", "addFocusTime"} -> "focusTime"
      [] op \in {"loadNotes", "saveNotes"} -> "globalNotes"

\* Whether the operation awaits the store inside a try block whose catch
\* logs with console.error.  saveThemePreference and the four task
\* operations await the store bare, and no caller awaits or catches them.
Catches(op) == op \notin ({"saveTheme"} \cup TaskOps)

\* The store rejected the operation's promise.
Failed(op) ==
    IF Catches(op)
    THEN /\ logged' = Append(logged, op)
         /\ unhandled' = unhandled
    ELSE /\ unhandled' = Append(unhandled, op)
         /\ logged' = logged

CanFail == Len(logged) + Len(unhandled) < MaxFailures

\* What a successful load leaves in memory: the stored value; when the
\* field is missing the theme is left alone, the others take their default.
Missing == "missing"
Loaded(op, found, current) ==
    IF found # Missing THEN found
    ELSE IF op = "loadTheme" THEN current
    ELSE "initial"

\* loadThemePreference, loadHeader, loadStatistics, loadGlobalNotes.
StoreLoad(op, found, ok) ==
    /\ signedIn
    /\ IF ok
       THEN /\ memory' = [memory EXCEPT ![FieldOf(op)] = Loaded(op, found, @)]
            /\ UNCHANGED <<logged, unhandled>>
       ELSE /\ CanFail
            /\ Failed(op)
            /\ memory' = memory
    /\ UNCHANGED <<timerVars, genVars, taskVars, eodVars, statVars>>

\* A change of theme, header or notes, or addFocusTime: the state cell is
\* set first, then the write is awaited.
StoreSave(op, v, ok) ==
    /\ signedIn
    /\ memory' = [memory EXCEPT ![FieldOf(op)] = v]
    /\ IF ok
       THEN UNCHANGED <<logged, unhandled>>
       ELSE CanFail /\ Failed(op)
    /\ UNCHANGED <<timerVars, genVars, taskVars, eodVars, statVars>>

\* ------------------------------------------------------------ the tasks
\* A task is its id and its done flag; ids are handed out in creation
\* order, so createdAt descending is id descending.  The title, due date
\* and notes of a task take no part in what follows.
Ids(list) == {list[i].id : i \in DOMAIN list}

\* What the query delivers to an attached listener after a write.
Notify(coll) == IF subscribed THEN Append(snapshots, coll) ELSE snapshots

RECURSIVE Without(_, _)
Without(list, id) ==
    IF list = <<>> THEN <<>>
    ELSE IF Head(list).id = id THEN Without(Tail(list), id)
    ELSE <<Head(list)>> \o Without(Tail(list), id)

WithDone(list, id, d) ==
    [i \in DOMAIN list |-> IF list[i].id = id THEN [list[i] EXCEPT !.done = d] ELSE list[i]]

DoneOf(list, id) == (CHOOSE i \in DOMAIN list : list[i].id = id) \in {i \in DOMAIN list : list[i].done}

\* The write went through: the collection changes and the listener is told.
Written(coll) ==
    /\ Len(snapshots) < MaxSnapshots
    /\ collection' = coll
    /\ snapshots' = Notify(coll)
    /\ UNCHANGED <<logged, unhandled>>

\* The write was rejected.
Rejected(op) ==
    /\ CanFail
    /\ Failed(op)
    /\ UNCHANGED <<collection, snapshots>>

addTask(ok) ==
    /\ signedIn
    /\ created < MaxTasks
    /\ IF ok
       THEN /\ Written(<<[id |-> created + 1, done |-> FALSE]>> \o collection)
            /\ created' = created + 1
       ELSE /\ Rejected("addTask")
            /\ created' = created
    /\ UNCHANGED <<signedIn, tasks, subscribed, memory>>
    /\ UNCHANGED <<timerVars, genVars, eodVars, statVars>>

\* updateDoc rejects when the document is gone.
toggleTask(id, ok) ==
    /\ signedIn
    /\ id \in Ids(tasks)
    /\ IF ok
       THEN /\ id \in Ids(collection)
            /\ Written(WithDone(collection, id, ~DoneOf(tasks, id)))
       ELSE Rejected("toggleTask")
    /\ UNCHANGED <<signedIn, tasks, created, subscribed, memory>>
    /\ UNCHANGED <<timerVars, genVars, eodVars, statVars>>

updateTask(id, ok) ==
    /\ signedIn
    /\ id \in Ids(tasks)
    /\ IF ok
       THEN /\ id \in Ids(collection)
            /\ Written(collection)
       ELSE Rejected("updateTask")
    /\ UNCHANGED <<signedIn, tasks, created, subscribed, memory>>
    /\ UNCHANGED <<timerVars, genVars, eodVars, statVars>>

removeTask(id, ok) ==
    /\ signedIn
    /\ id \in Ids(tasks)
    /\ IF ok
       THEN Written(Without(collection, id))
       ELSE Rejected("removeTask")
    /\ UNCHANGED <<signedIn, tasks, created, subscribed, memory>>
    /\ UNCHANGED <<timerVars, genVars, eodVars, statVars>>

\* The list the snapshot callback stores.
SnapshotListMerged(prev, docs) ==
    docs \o SelectSeq(prev, LAMBDA t : t.id \notin Ids(docs))

SnapshotList(prev, docs) == docs

\* The snapshot callback runs with the oldest snapshot on its way.
DeliverSnapshot ==
    /\ snapshots # <<>>
    /\ tasks' = SnapshotList(tasks, Head(snapshots))
    /\ snapshots' = Tail(snapshots)
    /\ UNCHANGED <<signedIn, collection, created, subscribed, storeVars>>
    /\ UNCHANGED <<timerVars, genVars, eodVars, statVars>>

\* The user signs in: Home mounts, the task effect attaches the listener,
\* which is first told the collection as it is, and the statistics effect
\* calls loadStatistics and updateLoginStreak, each up to its getDoc.
SignIn ==
    /\ ~signedIn
    /\ signedIn' = TRUE
    /\ subscribed' = TRUE
    /\ snapshots' = <<collection>>
    /\ tasks' = <<>>
    /\ loadPc' = "reading"
    /\ updPc' = "reading"
    /\ UNCHANGED <<collection, created, storeVars>>
    /\ UNCHANGED <<streak, stored, loadVal, updVal, focusVars>>
    /\ UNCHANGED <<timerVars, genVars, eodVars>>

\* handleLogout: the task effect's cleanup unsubscribes, its body empties
\* the list, the statistics effect sets the streak to 0, and Home gives way
\* to the landing page; what loadStatistics and updateLoginStreak still had
\* to do no longer shows.
SignOut ==
    /\ signedIn
    /\ signedIn' = FALSE
    /\ subscribed' = FALSE
    /\ snapshots' = <<>>
    /\ tasks' = <<>>
    /\ memory' = [f \in Fields |-> "initial"]
    /\ streak' = 0
    /\ loadPc' = "idle"
    /\ updPc' = "idle"
    /\ UNCHANGED <<collection, created, logged, unhandled>>
    /\ focusTime' = 0
    /\ focusWrites' = <<>>
    /\ UNCHANGED <<stored, loadVal, updVal, focusSum>>
    /\ UNCHANGED <<timerVars, genVars, eodVars>>

TaskNext ==
    \/ SignIn
    \/ SignOut
    \/ DeliverSnapshot
    \/ addTask(TRUE)
    \/ \E id \in 1..MaxTasks : toggleTask(id, TRUE)
    \/ \E id \in 1..MaxTasks : updateTask(id, TRUE)
    \/ \E id \in 1..MaxTasks : removeTask(id, TRUE)

TaskSpec == Init /\ [][TaskNext]_vars

StoreNext ==
    \/ SignIn
    \/ SignOut
    \/ DeliverSnapshot
    \/ \E op \in LoadOps, found \in Values \cup {Missing}, ok \in BOOLEAN : StoreLoad(op, found, ok)
    \/ \E op \in SaveOps, v \in Values, ok \in BOOLEAN : StoreSave(op, v, ok)
    \/ \E ok \in BOOLEAN : addTask(ok)
    \/ \E id \in 1..MaxTasks, ok \in BOOLEAN : toggleTask(id, ok)
    \/ \E id \in 1..MaxTasks, ok \in BOOLEAN : updateTask(id, ok)
    \/ \E id \in 1..MaxTasks, ok \in BOOLEAN : removeTask(id, ok)

StoreSpec == Init /\ [][StoreNext]_vars

\* ================================================ the end-of-day message
\* Home's effect on currentTime (a new Date every second): after 21:00 it
\* shows the day's message, from localStorage when today's is cached, from
\* GET /api/eod-message otherwise.

Fallback == "Rest well. You've earned it."

\* The messages the server generates on the successive days.
DayMessages == <<"message of day 1", "message of day 2", "message of day 3", "message of day 4">>

\* How a request ends: with the body {message, date}, with a rejected
\* fetch, or with a body res.json() cannot parse.
Outcomes == {"ok", "networkError", "unparsable"}

\* The body of the effect, run at a time whose hour is >= 21 iff n and
\* whose date is key.
EodEffect(n, key) ==
    IF n
    THEN IF cache.lastDate # key \/ cache.message = Absent
         THEN /\ Len(fetches) < MaxFetches
              /\ fetches' = Append(fetches, key)
              /\ eodMessage' = eodMessage
         ELSE /\ eodMessage' = cache.message
              /\ fetches' = fetches
    ELSE /\ eodMessage' = Absent
         /\ fetches' = fetches

\* One second passes within the same part of the day.
EodTick ==
    /\ EodEffect(night, todayKey)
    /\ UNCHANGED <<night, todayKey, cache, fetchedOn>>
    /\ UNCHANGED <<timerVars, genVars, storeVars, taskVars, statVars>>

\* The clock reaches 21:00.
Evening ==
    /\ ~night
    /\ night' = TRUE
    /\ EodEffect(TRUE, todayKey)
    /\ UNCHANGED <<todayKey, cache, fetchedOn>>
    /\ UNCHANGED <<timerVars, genVars, storeVars, taskVars, statVars>>

\* The clock reaches midnight.
Midnight ==
    /\ night
    /\ todayKey < MaxDays
    /\ night' = FALSE
    /\ todayKey' = todayKey + 1
    /\ EodEffect(FALSE, todayKey + 1)
    /\ UNCHANGED <<cache, fetchedOn>>
    /\ UNCHANGED <<timerVars, genVars, storeVars, taskVars, statVars>>

RemoveAt(q, i) == SubSeq(q, 1, i - 1) \o SubSeq(q, i + 1, Len(q))

\* The cache after the catch handler has run for a request of date key.
CacheAfterFailureDated(c, key) == [c EXCEPT !.lastDate = key]

CacheAfterFailure(c, key) == c

\* The dates the server may have while the client's date is key: the same
\* one, or a neighbour when the two clocks are in different time zones or
\* the request crosses midnight.
ServerDates(key) == {d \in 1..MaxDays : d - key \in {0 - 1, 0, 1}}

\* The i-th request without an answer gets one; the server generated the
\* message for its own date.
EodResolve(i, outcome, serverDay) ==
    /\ i \in DOMAIN fetches
    /\ serverDay \in ServerDates(fetches[i])
    /\ fetches' = RemoveAt(fetches, i)
    /\ IF outcome = "ok"
       THEN /\ cache' = [lastDate |-> fetches[i], message |-> DayMessages[serverDay]]
            /\ eodMessage' = DayMessages[serverDay]
            /\ fetchedOn' = IF fetches[i] = todayKey THEN todayKey ELSE fetchedOn
       ELSE /\ cache' = CacheAfterFailure(cache, fetches[i])
            /\ eodMessage' = Fallback
            /\ fetchedOn' = fetchedOn
    /\ UNCHANGED <<night, todayKey>>
    /\ UNCHANGED <<timerVars, genVars, storeVars, taskVars, statVars>>

EodNext ==
    \/ EodTick
    \/ Evening
    \/ Midnight
    \/ \E i \in 1..MaxFetches, outcome \in Outcomes, serverDay \in 1..MaxDays :
           EodResolve(i, outcome, serverDay)

EodSpec == Init /\ [][EodNext]_vars

\* ====================================================== the login streak
\* loadStatistics and updateLoginStreak, both called by the statistics
\* effect when a user is present.  Each awaits a getDoc of the user
\* document; what the getDoc returns is fixed when the store answers, the
\* code after the await runs later.

\* The answer to loadStatistics' getDoc is fixed.
LoadRead ==
    /\ loadPc = "reading"
    /\ loadVal' = stored
    /\ loadPc' = "read"
    /\ UNCHANGED <<streak, stored, updPc, updVal>>
    /\ UNCHANGED <<timerVars, genVars, storeVars, taskVars, eodVars, focusVars>>

\* loadStatistics after its await: setStreak(data.streak || 0) and
\* setFocusTime(data.focusTime || 0) when the document exists.
LoadContinue ==
    /\ loadPc = "read"
    /\ streak' = IF loadVal.exists THEN loadVal.streak ELSE streak
    /\ focusTime' = IF loadVal.exists THEN loadVal.focus ELSE focusTime
    /\ loadPc' = "done"
    /\ UNCHANGED <<stored, loadVal, updPc, updVal, focusWrites, focusSum>>
    /\ UNCHANGED <<timerVars, genVars, storeVars, taskVars, eodVars>>

\* The answer to updateLoginStreak's getDoc is fixed.
UpdRead ==
    /\ updPc = "reading"
    /\ updVal' = stored
    /\ updPc' = "read"
    /\ UNCHANGED <<streak, stored, loadPc, loadVal>>
    /\ UNCHANGED <<timerVars, genVars, storeVars, taskVars, eodVars, focusVars>>

\* The streak after a login on the day today, the document read being doc
\* and its lastLoginDate not today.
NewStreakKept(doc, today) == doc.streak + 1

NewStreak(doc, today) ==
    IF doc.last # NoDate /\ doc.last = today - 1 THEN doc.streak + 1 ELSE 1

\* updateLoginStreak after its await, up to its setDoc.
UpdContinue ==
    /\ updPc = "read"
    /\ IF updVal.last = todayKey
       THEN /\ updPc' = "done"
            /\ UNCHANGED <<streak, updVal>>
       ELSE /\ streak' = NewStreak(updVal, todayKey)
            /\ updVal' = [updVal EXCEPT !.exists = TRUE,
                                         !.streak = NewStreak(updVal, todayKey),
                                         !.last = todayKey]
            /\ updPc' = "writing"
    /\ UNCHANGED <<stored, loadPc, loadVal>>
    /\ UNCHANGED <<timerVars, genVars, storeVars, taskVars, eodVars, focusVars>>

\* updateLoginStreak's setDoc(..., {merge: true}) reaches the store, or is
\* rejected and logged.
UpdWrite(ok) ==
    /\ updPc = "writing"
    /\ updPc' = "done"
    /\ IF ok
       THEN /\ stored' = [stored EXCEPT !.exists = TRUE,
                                         !.streak = updVal.streak,
                                         !.last = updVal.last]
            /\ UNCHANGED <<logged, unhandled>>
       ELSE /\ CanFail
            /\ Failed("updateLoginStreak")
            /\ stored' = stored
    /\ UNCHANGED <<streak, loadPc, loadVal, updVal, memory, focusVars>>
    /\ UNCHANGED <<timerVars, genVars, taskVars, eodVars>>

\* Another write of Home creates the user document (loadHeader saving
\* the default header at the first sign-in).
DocCreated ==
    /\ signedIn
    /\ ~stored.exists
    /\ stored' = [stored EXCEPT !.exists = TRUE]
    /\ UNCHANGED <<streak, loadPc, loadVal, updPc, updVal>>
    /\ UNCHANGED <<timerVars, genVars, storeVars, taskVars, eodVars, focusVars>>

\* A day goes by without Home being open in the evening.
DayPasses ==
    /\ ~night
    /\ todayKey < MaxDays
    /\ todayKey' = todayKey + 1
    /\ UNCHANGED <<night, cache, eodMessage, fetches, fetchedOn>>
    /\ UNCHANGED <<timerVars, genVars, storeVars, taskVars, statVars>>

StatNext ==
    \/ SignIn
    \/ SignOut
    \/ LoadRead
    \/ LoadContinue
    \/ UpdRead
    \/ UpdContinue
    \/ \E ok \in BOOLEAN : UpdWrite(ok)
    \/ DocCreated
    \/ DayPasses

StatSpec == Init /\ [][StatNext]_vars

\* ======================================================== the focus time
\* addFocusTime(minutes), called by the Pomodoro completion with 25 and by
\* the full-screen timer's session effect with the minutes of the session.
\* The state cell is set from the focusTime of the render the function
\* belongs to, then setDoc is called with the same value and awaited.
FocusMinutes == {0, 1, 25}

addFocusTime(minutes) ==
    /\ signedIn
    /\ Len(focusWrites) < MaxFocusCalls
    /\ focusSum < MaxFocusSum
    /\ IF minutes <= 0
       THEN UNCHANGED <<focusTime, focusWrites, focusSum>>
       ELSE /\ focusTime' = focusTime + minutes
            /\ focusWrites' = Append(focusWrites, focusTime + minutes)
            /\ focusSum' = focusSum + minutes
    /\ UNCHANGED <<streak, stored, loadPc, loadVal, updPc, updVal>>
    /\ UNCHANGED <<timerVars, genVars, storeVars, taskVars, eodVars>>

\* The writes under way that may be the next to reach the store.
NextWritesInOrder == {1} \cap DOMAIN focusWrites

NextWrites == DOMAIN focusWrites

\* One setDoc(..., {focusTime: value}, {merge: true}) reaches the store, or
\* is rejected and logged.
FocusWrite(i, ok) ==
    /\ i \in NextWrites
    /\ focusWrites' = RemoveAt(focusWrites, i)
    /\ IF ok
       THEN /\ stored' = [stored EXCEPT !.exists = TRUE, !.focus = focusWrites[i]]
            /\ UNCHANGED <<logged, unhandled>>
       ELSE /\ CanFail
            /\ Failed("addFocusTime")
            /\ stored' = stored
    /\ UNCHANGED <<streak, loadPc, loadVal, updPc, updVal, focusTime, focusSum, memory>>
    /\ UNCHANGED <<timerVars, genVars, taskVars, eodVars>>

FocusNext ==
    \/ SignIn
    \/ \E minutes \in FocusMinutes : addFocusTime(minutes)
    \/ \E i \in 1..MaxFocusCalls, ok \in BOOLEAN : FocusWrite(i, ok)

FocusSpec == Init /\ [][FocusNext]_vars

\* ================================================================ claims
IsPomoCall(c) == c.src = "pomo"
AnyPomoReset == \E arg \in ResetArgs : PomoReset(arg)

\* C1: pausing either timer keeps the displayed time; while a timer is paused
\* no step other than a reset (Pomodoro) or a -1m / +1m press (full-screen)
\* changes it, as long as its view stays mounted (Home for the Pomodoro
\* timer, the card for the full-screen timer); and resuming starts the
\* count at the current clock from exactly the frozen value.
C1_PausePreservesProgress ==
    [][ /\ (PomoToggle /\ pomoRunning) => pomoRemaining' = pomoRemaining
        /\ (~pomoRunning /\ ~AnyPomoReset /\ ~HomeRemount) =>
               pomoRemaining' = pomoRemaining
        /\ (~pomoRunning /\ pomoRunning') =>
               /\ pomoSessionStartRef' = now'
               /\ pomoSessionDurationRef' = pomoRemaining
        /\ (FsToggle /\ running) => seconds' = seconds
        /\ (~running /\ activeTab = "timer" /\ activeTab' = "timer"
              /\ ~FsMinus /\ ~FsPlus) => seconds' = seconds
        /\ (~running /\ running') =>
               /\ lastTickRef' = now'
               /\ seconds' = seconds
      ]_vars

\* Both timers have been paused after some progress and resumed: each counts
\* again from the value it was frozen at.
C1_Witness ==
    /\ pomoRunning
    /\ pomoSessionStartRef # Null
    /\ pomoSessionDurationRef < FullDuration(pomoMode)
    /\ pomoRemaining = pomoSessionDurationRef
    /\ running
    /\ seconds < InitialSeconds * 1000
    /\ seconds % 60000 # 0
    /\ fsD = seconds
    /\ lastTickRef = fsT0

\* C2: the tick that completes a running Pomodoro session flips the mode,
\* stores the other mode's full duration, keeps the timer running and re-arms
\* the session (start = now, snapshot = the new remaining), so that the
\* timer goes on counting: a second or more into a running interval, a tick
\* completes the session or computes less than the interval's snapshot.
C2_FlipRearmsSession ==
    [][ /\ (PomoTick /\ pomoMode' # pomoMode) =>
               /\ pomoMode' = NextMode(pomoMode)
               /\ pomoRemaining' = FullDuration(pomoMode')
               /\ pomoRunning'
               /\ pomoIntervalRef'
               /\ pomoSessionStartRef' = now'
               /\ pomoSessionDurationRef' = pomoRemaining'
        /\ (pomoRunning /\ now - pomoT0 >= 1000) =>
               (PomoCompletes \/ CalculatePomoRemaining < pomoD)
      ]_vars

\* C3: the calls of the focus-time callback made by the Pomodoro timer grow by
\* exactly one call, with 25 minutes, in a step that completes a focus
\* session (focus -> break while running), and not at all in any other step.
C3_OneCallPerFocusCompletion ==
    [][ LET completed == /\ pomoRunning /\ pomoRunning'
                         /\ pomoMode = "focus" /\ pomoMode' = "break"
            old == SelectSeq(focusCalls, IsPomoCall)
            new == SelectSeq(focusCalls', IsPomoCall)
        IN  new = IF completed
                  THEN Append(old, [src |-> "pomo", minutes |-> 25])
                  ELSE old
      ]_vars

\* A focus session and then a break session have completed: one call.
C3_Witness ==
    /\ pomoRunning
    /\ pomoMode = "focus"
    /\ pomoSessionStartRef = Null
    /\ pomoSessionDurationRef = FullDuration("focus")
    /\ SelectSeq(focusCalls, IsPomoCall) = <<[src |-> "pomo", minutes |-> 25]>>

\* C4: when the mounted full-screen timer stops, the callback is called
\* exactly once with round(d / 60000) if that is positive, and not called
\* otherwise, d being the time since running became true.
C4_ReportsElapsedMinutes ==
    [][ (running /\ ~running' /\ activeTab' = "timer") =>
            LET m == SessionMinutes(now' - fsT0) IN
            focusCalls' = IF m > 0
                          THEN Append(focusCalls, [src |-> "fs", minutes |-> m])
                          ELSE focusCalls
      ]_vars

\* C5: a running timer reaches 0 exactly when the wall-clock time it has
\* spent running adds up to the configured duration: at any moment the value
\* a tick computes is the configured duration minus the time spent running
\* (rounded up to whole seconds for the Pomodoro timer), and a tick completes
\* the Pomodoro session exactly when that time is used up.
C5_TimeToZeroIsConfigured ==
    /\ (running /\ fsD # Null) => FsTickSeconds = Max(0, fsDueMs)
    /\ pomoRunning =>
           IF pomoDueMs <= 0
           THEN PomoCompletes
           ELSE /\ ~PomoCompletes
                /\ CalculatePomoRemaining = (pomoDueMs + 999) \div 1000

\* C6: at time t of a running interval that began at t0 with snapshot D, a
\* tick computes max(0, D - floor((t - t0) / 1000)) for the Pomodoro timer
\* (0 meaning that it completes the session) and max(0, D - (t - t0)) for the
\* full-screen timer, D including the adjustments made since t0, whatever
\* the number and the times of the ticks before.
C6_DriftResistance ==
    /\ pomoRunning =>
           LET ideal == Max(0, pomoD - ((now - pomoT0) \div 1000)) IN
           IF ideal = 0 THEN PomoCompletes
           ELSE ~PomoCompletes /\ CalculatePomoRemaining = ideal
    /\ (running /\ fsD # Null) => FsTickSeconds = Max(0, fsD - (now - fsT0))

\* C7: a step that brings the seconds of the running full-screen timer from a
\* positive value to 0 stops it (running false, interval cleared); a tick
\* that is late by at least the remaining time, and a -1m press with at most
\* a minute left, give exactly 0 and stop it.
C7_ZeroStopsFullscreen ==
    [][ /\ (running /\ activeTab' = "timer" /\ seconds > 0 /\ seconds' = 0) =>
               /\ ~running'
               /\ ~fsInterval'
        /\ (FsTick /\ running /\ seconds > 0 /\ now - lastTickRef >= seconds) =>
               /\ seconds' = 0
               /\ ~running'
        /\ (FsMinus /\ running /\ seconds > 0 /\ seconds <= 60000) =>
               /\ seconds' = 0
               /\ ~running'
      ]_vars

\* A tick has brought the running timer to 0 and it is stopped.
C7_Witness ==
    /\ activeTab = "timer"
    /\ fsZeroBy = "tick"
    /\ seconds = 0
    /\ ~running

\* C8: the Pomodoro remaining time and the full-screen seconds are never
\* negative.
C8_NonNegative == pomoRemaining >= 0 /\ seconds >= 0

\* The -1m button has brought the running timer to the floor.
C8_Witness ==
    /\ activeTab = "timer"
    /\ fsZeroBy = "minus"
    /\ seconds = 0

\* C9: -1m sets max(0, seconds - 60 s) and +1m sets seconds + 60 s, running
\* or not; a tick of the running timer never raises seconds and never takes
\* off more than the time elapsed since the interval began, counted from the
\* snapshot plus the adjustments.
C9_AdjustBy ==
    [][ /\ FsMinus => seconds' = Max(0, seconds - 60000)
        /\ FsPlus => seconds' = seconds + 60000
        /\ (FsTick /\ running) =>
               /\ seconds' <= seconds
               /\ fsD # Null => seconds' >= Max(0, fsD - (now - fsT0))
      ]_vars

\* The running timer was adjusted and has ticked at the current time: it
\* shows the adjusted snapshot minus the elapsed time.
C9_Witness ==
    /\ running
    /\ fsAdjusted
    /\ now > fsT0
    /\ lastTickRef = now
    /\ sessionStartTimeRef = fsT0
    /\ seconds > 0
    /\ seconds = fsD - (now - fsT0)

\* C10 as stated: reset stops the timer, sets the given mode or keeps the
\* current mode when none is given, stores that mode's full duration, clears
\* the session start and reports nothing.
C10_ResetKeepsModeWhenOmitted ==
    [][ \A arg \in ResetArgs : PomoReset(arg) =>
            /\ ~pomoRunning'
            /\ pomoMode' = (IF arg = NoArg THEN pomoMode ELSE arg)
            /\ pomoRemaining' = FullDuration(pomoMode')
            /\ pomoSessionStartRef' = Null
            /\ focusCalls' = focusCalls
      ]_vars

\* C10 as amended: when no mode is given the mode becomes "focus".
C10_ResetDefaultsToFocus ==
    [][ \A arg \in ResetArgs : PomoReset(arg) =>
            /\ ~pomoRunning'
            /\ ~pomoIntervalRef'
            /\ pomoMode' = (IF arg = NoArg THEN "focus" ELSE arg)
            /\ pomoRemaining' = FullDuration(pomoMode')
            /\ pomoSessionStartRef' = Null
            /\ focusCalls' = focusCalls
      ]_vars

\* A reset has acted in break mode, after a completed focus session.
C10_Witness ==
    /\ ~pomoRunning
    /\ pomoMode = "focus"
    /\ pomoRemaining = FullDuration("focus")
    /\ pomoSessionStartRef = Null
    /\ pomoSessionDurationRef = FullDuration("break")
    /\ focusCalls # <<>>

\* C17: for each timer exactly one interval timer is live while the timer
\* is running (and, for the full-screen timer, its card is mounted) and none
\* otherwise: after a pause, a reset, the full-screen timer reaching 0, a
\* change of tab away from the card and a remount of Home; the refs agree;
\* and a tick changes the remaining time of a running timer only.
C17_TickRegisteredIffRunning ==
    /\ pomoTimers = (IF pomoRunning THEN 1 ELSE 0)
    /\ fsTimers = (IF running /\ activeTab = "timer" THEN 1 ELSE 0)
    /\ pomoIntervalRef <=> pomoRunning
    /\ fsInterval <=> running
    /\ running => activeTab = "timer"
    /\ ENABLED PomoTick => pomoRunning
    /\ ENABLED FsTick => running

\* The Pomodoro timer runs in its second session, its interval set again
\* by the flip, and the full-screen timer has reached 0 and is stopped.
C17_Witness ==
    /\ pomoRunning
    /\ pomoMode = "break"
    /\ pomoTimers = 1
    /\ ~running
    /\ fsZeroBy = "tick"
    /\ fsTimers = 0

\* -------------------------------------------------- the daily message
Called == genCalls # <<>> \/ responses # <<>>

\* The seed as the integer it denotes, for seeds of 32 bits.
SeedValue == seed.h * W + seed.l

\* C11: all calls of generateDailyMessage with the same string, direct or
\* through the route, return the same message, whatever was called before.
C11_Deterministic ==
    /\ \A i, j \in DOMAIN genCalls : genCalls[i] = genCalls[j]
    /\ \A i \in DOMAIN genCalls : \A j \in DOMAIN responses :
           genCalls[i] = responses[j].message

\* The generator has been called twice with a string that gives a seed
\* other than 0.
C11_Witness ==
    /\ Len(genCalls) = 2
    /\ dateString # <<>>
    /\ seed # Num(0, 0)

\* seed * 31 + c as an exact Number, and the fold of truncate32 over a string
Times31Plus(sd, c) ==
    Num(sd.h * 31 + ((sd.l * 31 + c) \div W), (sd.l * 31 + c) % W)
RECURSIVE Fold31(_, _)
Fold31(sd, str) ==
    IF str = <<>> THEN sd
    ELSE LET next == ToInt32(Times31Plus(sd, Head(str))) IN
         IF next.l >= 0 THEN Fold31(next, Tail(str)) ELSE next

\* C12: the seed a call ends with is the fold, from 0, of
\* seed := truncate32(seed * 31 + c) over the character codes of the input,
\* and lies in -2^31 .. 2^31 - 1.
C12_SeedIsFold31 ==
    Called => /\ seed = Fold31(Num(0, 0), dateString)
              /\ seed.h \in (0 - 32768) .. 32767
              /\ seed.l \in 0 .. (W - 1)

\* A call has ended with a negative seed: the fold has wrapped around.
C12_Witness ==
    /\ Called
    /\ seed.h < 0
    /\ Len(dateString) = MaxLen

\* |v| mod 5 and (|v| + k) mod 5 for an integer v of 32 bits
AbsMod5(v, k) == ((IF v >= 0 THEN v % 5 ELSE (5 - (v % 5)) % 5) + k) % 5

\* The entry a piece of a template stands for, for the seed value v
Filled(piece, v) ==
    CASE piece = "{action}" -> actions[AbsMod5(v, 1) + 1]
      [] piece = "{encouragement}" -> encouragements[AbsMod5(v, 2) + 1]
      [] piece = "{verb}" -> verbs[AbsMod5(v, 3) + 1]
      [] piece = "{accomplishment}" -> accomplishments[AbsMod5(v, 4) + 1]
      [] piece = "{quality}" -> qualities[AbsMod5(v, 5) + 1]
      [] piece = "{future_action}" -> futureActions[AbsMod5(v, 6) + 1]
      [] OTHER -> piece
FilledTemplate(v) ==
    LET t == templates[AbsMod5(v, 0) + 1] IN
    Join([i \in DOMAIN t |-> Filled(t[i], v)])

\* C13: the message a call returns is template |seed| mod 5 with each slot
\* it contains replaced by the entry (|seed| + k) mod 5 of the slot's pool,
\* k = 1 .. 6 for action, encouragement, verb, accomplishment, quality,
\* futureAction.
C13_SelectsAndFills == Called => message = FilledTemplate(SeedValue)

\* A call has selected the second template, which has two slots.
C13_Witness ==
    /\ Called
    /\ AbsMod5(SeedValue, 0) = 1
    /\ message = FilledTemplate(SeedValue)

\* C14: for every seed a call ends with, -2^31 included, the absolute value
\* is not negative, the template index and the six slot indices are in
\* 0 .. 4, and the message has no undefined part.
C14_IndicesInRange ==
    Called =>
        /\ Abs(seed).h >= 0
        /\ Rem(Abs(seed), Len(templates)) \in 0 .. 4
        /\ \A k \in 1 .. 6 : SlotIdx(Abs(seed), k, actions) \in 0 .. 4
        /\ message # TypeError
        /\ message \in {FilledTemplate(v) : v \in 0 .. 4}

\* A call has ended with the seed -2^31.
C14_Witness ==
    /\ Called
    /\ seed = Num(0 - 32768, 0)
    /\ message # ""

\* C15: a call with the empty string ends with seed 0 and returns
\* "You showed up today. You've got this".
C15_EmptyString ==
    (Called /\ dateString = <<>>) =>
        /\ seed = Num(0, 0)
        /\ message = "You showed up today. You've got this"

\* The generator has been called with the empty string.
C15_Witness ==
    /\ dateString = <<>>
    /\ genCalls # <<>>
    /\ message # ""

\* C16: the message of every response is the generator's message for the
\* date of the same response, and the responses sent on one server date
\* are identical.
C16_RouteReturnsGenerated ==
    /\ \A i \in DOMAIN responses :
           /\ responses[i].message = MessageFor(Fold31(Num(0, 0), responses[i].date))
           /\ responses[i].date = dateString
    /\ \A i, j \in DOMAIN responses : responses[i] = responses[j]

\* Two requests have been answered on the date "Wed Nov 04 2026".
C16_Witness ==
    /\ Len(responses) = 2
    /\ dateString = SampleDate
    /\ responses[2].message # ""

\* -------------------------------------------------- the document store
\* C18: every rejected read or write of the document store (loading the
\* theme, header, statistics or notes; saving the theme, header, focus
\* time or notes; adding, toggling, updating or removing a task) is caught
\* and logged, is never left unhandled, and leaves the value in memory as
\* it last was: untouched by a load or a task operation, the value just
\* set by a save.
C18_FailuresCaughtAndLogged ==
    [][/\ \A op \in LoadOps, found \in Values \cup {Missing} :
              StoreLoad(op, found, FALSE) =>
                  /\ logged' = Append(logged, op)
                  /\ unhandled' = unhandled
                  /\ memory' = memory
       /\ \A op \in SaveOps, v \in Values :
              StoreSave(op, v, FALSE) =>
                  /\ logged' = Append(logged, op)
                  /\ unhandled' = unhandled
                  /\ memory' = [memory EXCEPT ![FieldOf(op)] = v]
       /\ addTask(FALSE) =>
              /\ logged' = Append(logged, "addTask")
              /\ unhandled' = unhandled
              /\ tasks' = tasks
       /\ \A id \in 1..MaxTasks :
              /\ toggleTask(id, FALSE) =>
                     /\ logged' = Append(logged, "toggleTask")
                     /\ unhandled' = unhandled
                     /\ tasks' = tasks
              /\ updateTask(id, FALSE) =>
                     /\ logged' = Append(logged, "updateTask")
                     /\ unhandled' = unhandled
                     /\ tasks' = tasks
              /\ removeTask(id, FALSE) =>
                     /\ logged' = Append(logged, "removeTask")
                     /\ unhandled' = unhandled
                     /\ tasks' = tasks
      ]_vars

\* The ids of a list go strictly down: newest first.
NewestFirst(list) == \A i, j \in DOMAIN list : i < j => list[i].id > list[j].id

\* C19: every snapshot delivered to the listener replaces the local task
\* list by the snapshot's documents, in their order (createdAt descending),
\* with nothing of the previous list merged in; once every snapshot is
\* delivered the list is the collection.  When the user signs out the list
\* is emptied and the subscription is cancelled, and while nobody is signed
\* in the list is empty and no listener is attached.
C19_SnapshotReplacesList ==
    /\ [][/\ DeliverSnapshot => tasks' = Head(snapshots)
          /\ SignOut => (tasks' = <<>> /\ ~subscribed' /\ snapshots' = <<>>)
         ]_vars
    /\ [](/\ NewestFirst(tasks)
          /\ (signedIn /\ snapshots = <<>>) => tasks = collection
          /\ ~signedIn => (tasks = <<>> /\ ~subscribed /\ snapshots = <<>>)
          /\ signedIn => subscribed)

\* Two tasks were created, one was removed, and the snapshot without it
\* has been delivered: the list holds the one task left.
C19_Witness ==
    /\ signedIn
    /\ created = 2
    /\ snapshots = <<>>
    /\ Len(tasks) = 1
    /\ tasks = collection

\* ------------------------------------------------ the end-of-day message
\* C20: when a request for the daily message fails, by a network error or
\* by a response that cannot be parsed, the displayed message becomes
\* "Rest well. You've earned it." and neither cache entry
\* (rose_eod_last_date, rose_eod_message) is written or changed.
C20_FailureShowsFallback ==
    [][\A i \in 1..MaxFetches, outcome \in {"networkError", "unparsable"}, serverDay \in 1..MaxDays :
           EodResolve(i, outcome, serverDay) =>
               /\ eodMessage' = "Rest well. You've earned it."
               /\ cache' = cache
      ]_vars

\* On the second evening the request has failed: the fallback is shown and
\* the cache still holds the first day's entries.
C20_Witness ==
    /\ night
    /\ todayKey = 2
    /\ eodMessage = Fallback
    /\ cache = [lastDate |-> 1, message |-> DayMessages[1]]

\* The cache holds today's date key together with a message.
Cached == cache.lastDate = todayKey /\ cache.message # Absent

\* What one run of the effect, and one successful answer, do.
C21_EffectSteps ==
    /\ ((EodTick /\ ~night) \/ Midnight) => eodMessage' = Absent
    /\ (((EodTick /\ night) \/ Evening) /\ Cached) =>
           (eodMessage' = cache.message /\ fetches' = fetches)
    /\ (((EodTick /\ night) \/ Evening) /\ ~Cached) =>
           fetches' = Append(fetches, todayKey)
    /\ \A i \in 1..MaxFetches, d \in 1..MaxDays :
           EodResolve(i, "ok", d) =>
               (cache'.lastDate = fetches[i] /\ cache'.message = DayMessages[d])

\* No request is sent on a day on which a request of that day has succeeded.
C21_NoRefetch == Len(fetches') > Len(fetches) => fetchedOn # todayKey

C21_OneOutstanding == Len(fetches) <= 1

\* C21: an effect run before 21:00 sets the message to null; from 21:00 a
\* run shows the cached message and sends nothing when the cache holds
\* today's key with a message, and sends a request otherwise; a successful
\* answer writes both cache entries; after the first successful fetch of a
\* day no further request is sent that day; at most one request is
\* outstanding at a time.
C21_ShownFromNineWithOneRequest ==
    /\ [][C21_EffectSteps /\ C21_NoRefetch]_vars
    /\ []C21_OneOutstanding

\* C29: whenever the cache holds a date key and a message, the message is
\* the one the server generates for that date, also when the server's date
\* differs from the client's or the answer arrives after the client's date
\* has changed.
C29_CachedMessageIsOfCachedDate ==
    (cache.lastDate # NoDate /\ cache.message # Absent) =>
        cache.message = DayMessages[cache.lastDate]

\* ------------------------------------------------ the full-screen overlay
\* C22: enter() sets open to true and exit() sets it to false; both leave
\* running and seconds unchanged, and a rejected full-screen request or
\* release leaves no unhandled rejection and nothing logged; the timer's
\* own operations leave open unchanged.
C22_OpenIsOrthogonal ==
    [][/\ \A ok \in BOOLEAN :
              /\ FsEnter(ok) =>
                     /\ fsOpen'
                     /\ running' = running /\ seconds' = seconds
                     /\ unhandled' = unhandled /\ logged' = logged
              /\ FsExit(ok) =>
                     /\ ~fsOpen'
                     /\ running' = running /\ seconds' = seconds
                     /\ unhandled' = unhandled /\ logged' = logged
       /\ (FsToggle \/ FsTick \/ FsMinus \/ FsPlus) => fsOpen' = fsOpen
      ]_vars

\* The overlay is open over a timer that is running and has counted down.
C22_Witness ==
    /\ fsOpen
    /\ running
    /\ seconds < InitialSeconds * 1000
    /\ seconds > 0

\* C24: in every state of the full-screen timer, all effects having run,
\* running implies seconds > 0; the timer is never left running at 0.
C24_NeverRunningAtZero == running => seconds > 0

\* C25: in every state of the Pomodoro timer, remaining is a whole number
\* of seconds between 1 and the configured duration of the current mode
\* (1500 in focus, 300 in break); 0 is never stored.
C25_RemainingInRange ==
    /\ pomoRemaining \in 1..FullDuration(pomoMode)
    /\ FullDuration(pomoMode) = IF pomoMode = "focus" THEN 1500 ELSE 300

\* A focus session has run out while running: the break is on, with its
\* full duration stored.
C25_Witness ==
    /\ pomoMode = "break"
    /\ pomoRunning
    /\ pomoRemaining = 300
    /\ focusCalls # <<>>

\* ------------------------------------------------------ the login streak
\* C23: updateLoginStreak, the document read holding lastLoginDate and
\* streak: if lastLoginDate is today, the displayed streak is left alone
\* and nothing is written; if it is yesterday the new streak is the read
\* streak + 1, in every other case (older, or no record) it is 1; the
\* display receives the new streak at once and the store receives it
\* together with lastLoginDate = today.  A stored streak that has a login
\* date is at least 1.
C23_StreakUpdate ==
    /\ [][/\ (UpdContinue /\ updVal.last = todayKey) =>
                 (streak' = streak /\ updPc' = "done" /\ stored' = stored)
          /\ (UpdContinue /\ updVal.last # todayKey) =>
                 LET new == IF updVal.last # NoDate /\ updVal.last + 1 = todayKey
                            THEN updVal.streak + 1
                            ELSE 1
                 IN /\ streak' = new
                    /\ updPc' = "writing"
                    /\ updVal'.streak = new
                    /\ updVal'.last = todayKey
          /\ UpdWrite(TRUE) =>
                 (stored'.streak = updVal.streak /\ stored'.last = updVal.last)
          /\ ~UpdWrite(TRUE) =>
                 (stored'.streak = stored.streak /\ stored'.last = stored.last)
         ]_vars
    /\ [](stored.last # NoDate => stored.streak >= 1)

\* Logins on two consecutive days: the stored and the displayed streak are 2.
C23_Witness ==
    /\ stored = [exists |-> TRUE, streak |-> 2, last |-> 2, focus |-> 0]
    /\ streak = 2
    /\ updPc = "done"

\* C27: after a sign-in, once loadStatistics and updateLoginStreak have
\* both completed (no write having been rejected), the displayed streak is
\* the streak stored in the user's document.
C27_DisplayedStreakIsStored ==
    (signedIn /\ loadPc = "done" /\ updPc = "done" /\ logged = <<>>) =>
        streak = stored.streak

\* ------------------------------------------------------------ the tasks
\* C28: one toggleTask call leaves the stored done flag of its task
\* negated, whatever snapshots have or have not been delivered, so that two
\* calls leave it as it was; toggleTask on an id absent from the local
\* list, or with no user, writes nothing.
C28_ToggleIsInvolution ==
    /\ [][\A id \in 1..MaxTasks :
              toggleTask(id, TRUE) =>
                  DoneOf(collection', id) = ~DoneOf(collection, id)
         ]_vars
    /\ [](\A id \in 1..MaxTasks :
              (~signedIn \/ id \notin Ids(tasks)) => ~ENABLED toggleTask(id, TRUE))

\* -------------------------------------------------- the daily message
Slots == {"{action}", "{encouragement}", "{verb}", "{accomplishment}", "{quality}",
          "{future_action}"}

\* The message for each value of |seed| mod 5.
FiveMessages == <<
    "You showed up today. You've got this",
    "Keep going You've carried on through another day.",
    "Rest now. Tomorrow needs you.",
    "You kept going, and that's enough.",
    "Your resilience matters. Take care of yourself." >>

\* C30: the message a call returns is determined by |seed| mod 5 alone, so
\* that there are at most five messages; it is not an error value, and no
\* placeholder is left in it: every slot of the chosen template has been
\* replaced, the slots the template does not have being passed over.
C30_FiveMessagesNoPlaceholder ==
    Called =>
        LET t == AbsMod5(SeedValue, 0) + 1
            pieces == FilledPieces(templates[t], Abs(seed))
        IN  /\ message = FiveMessages[t]
            /\ message = Join(pieces)
            /\ message # TypeError
            /\ \A i \in DOMAIN pieces : pieces[i] \notin Slots
            /\ Len(pieces) = Len(templates[t])

\* A call has chosen the third template, which has one slot only.
C30_Witness ==
    /\ Called
    /\ AbsMod5(SeedValue, 0) = 2
    /\ message = "Rest now. Tomorrow needs you."

\* -------------------------------------------------------- the focus time
\* C26: after any sequence of addFocusTime calls, once all their store
\* writes have completed, in whatever order, the focus time in memory and
\* the stored focusTime both are the value before the sequence plus the sum
\* of the positive minutes; a call with minutes <= 0 changes neither.
C26_FocusTimeIsSum ==
    /\ []((signedIn /\ focusWrites = <<>> /\ logged = <<>>) =>
              (focusTime = focusSum /\ stored.focus = focusSum))
    /\ [][\A minutes \in FocusMinutes :
              (minutes <= 0 /\ addFocusTime(minutes)) =>
                  UNCHANGED <<focusTime, stored, focusWrites>>
         ]_vars

====
